---- MODULE Spec2Model ----
(***************************************************************************)
(* Session controller of the wound care assessment app (src/app.py).       *)
(* One action per button handler.  An action is one whole script run of    *)
(* the Streamlit page for that button press, the rerun it ends with        *)
(* included.  Texts are strings, built as the f-strings of the source      *)
(* build them.                                                             *)
(***************************************************************************)
EXTENDS Integers, Sequences, FiniteSets, TLC

VARIABLES
    terms_accepted,         \* st.session_state.terms_accepted
    current_page,           \* st.session_state.current_page
    assessment_data,        \* st.session_state.assessment_data (None or the dict)
    session_keys,           \* which of the lazily created keys are in st.session_state
    conversation_history,   \* st.session_state.conversation_history (empty while the key is absent)
    continue_conversation,  \* st.session_state.continue_conversation
    remote_log,             \* client.chat.completions.create calls of the last script run
    display,                \* st.error / st.warning / st.success boxes left on screen by the last run
    unhandled,              \* the last script run ended in an exception nobody caught
    widgets,                \* the widget values the last pressed handler read
    last_event              \* the button the last script run handled

vars == <<terms_accepted, current_page, assessment_data, session_keys,
          conversation_history, continue_conversation, remote_log, display,
          unhandled, widgets, last_event>>

session == <<terms_accepted, current_page, assessment_data, session_keys,
             conversation_history, continue_conversation>>

\* ---------------------------------------------------------------- bounds
MaxHistory == 3

\* ------------------------------------------------------------- constants
MaxTokensAssessment == 1000
MaxTokensFollowUp == 500

\* Python's None (also falsy, like the empty dict)
None == <<>>

\* ------------------------------------------------- inputs the user can give
SupplyOptions == <<"Bandage", "Other">>
OtherSupplies == {"", "tape"}
OtherSettings == {""}
SettingOptions == {"Home"}
ExpertiseOptions == {"Non-healthcare professional"}
WillingnessOptions == {"Yes"}
FrequencyOptions == {"Daily"}
InfectedOptions == {"Not sure"}
MoistureOptions == {"Dry"}
Files == {[name |-> "wound.jpg", bytes |-> <<255, 216, 255>>]}
Questions == {"", " \n", "red?", " how often"}

\* what the remote endpoint can answer to one request
AssessmentOutcomes ==
    {[ok |-> TRUE, content |-> "1. Clean"], [ok |-> TRUE, content |-> "1. Cover"],
     [ok |-> FALSE, e |-> "timeout"]}
FollowUpOutcomes ==
    {[ok |-> TRUE, content |-> "Daily"], [ok |-> FALSE, e |-> "rate limit"]}

\* ------------------------------------------------------------ pure helpers
Whitespace == {" ", "\n", "\t"}

RECURSIVE lstrip(_)
lstrip(s) ==
    IF Len(s) > 0 /\ SubSeq(s, 1, 1) \in Whitespace
    THEN lstrip(SubSeq(s, 2, Len(s))) ELSE s

RECURSIVE rstrip(_)
rstrip(s) ==
    IF Len(s) > 0 /\ SubSeq(s, Len(s), Len(s)) \in Whitespace
    THEN rstrip(SubSeq(s, 1, Len(s) - 1)) ELSE s

strip(s) == rstrip(lstrip(s))

B64Alphabet == "ABCDEFGHIJKLMNOPQRSTUVWXYZabcdefghijklmnopqrstuvwxyz0123456789+/"
B64Char(n) == SubSeq(B64Alphabet, n + 1, n + 1)

RECURSIVE b64encode(_)
b64encode(bytes) ==
    IF Len(bytes) = 0 THEN ""
    ELSE IF Len(bytes) = 1 THEN
        B64Char(bytes[1] \div 4) \o B64Char((bytes[1] % 4) * 16) \o "=="
    ELSE IF Len(bytes) = 2 THEN
        B64Char(bytes[1] \div 4)
        \o B64Char((bytes[1] % 4) * 16 + bytes[2] \div 16)
        \o B64Char((bytes[2] % 16) * 4) \o "="
    ELSE
        B64Char(bytes[1] \div 4)
        \o B64Char((bytes[1] % 4) * 16 + bytes[2] \div 16)
        \o B64Char((bytes[2] % 16) * 4 + bytes[3] \div 64)
        \o B64Char(bytes[3] % 64)
        \o b64encode(SubSeq(bytes, 4, Len(bytes)))

\* repr() of a Python list of strings, as an f-string prints it
RECURSIVE ReprItems(_)
ReprItems(l) ==
    IF Len(l) = 0 THEN ""
    ELSE IF Len(l) = 1 THEN "'" \o l[1] \o "'"
    ELSE "'" \o l[1] \o "', " \o ReprItems(Tail(l))

ReprList(l) == "[" \o ReprItems(l) \o "]"

\* the warning sign that opens the message in the source is left out of the string
ErrorPrefix == "Error calling OpenAI API: "
ErrorText(e) == ErrorPrefix \o e

\* ------------------------------------------------------------ input page
\* the checkbox loop: the ticked options in the order of supply_options,
\* "Other" only with a non-empty text
RECURSIVE CollectSupplies_OtherUnchecked(_, _, _)
CollectSupplies_OtherUnchecked(options, checked, other_supplies) ==
    IF Len(options) = 0 THEN <<>>
    ELSE LET option == Head(options)
             rest == CollectSupplies_OtherUnchecked(Tail(options), checked,
                                                    other_supplies)
         IN IF option \in checked
            THEN IF option = "Other"
                 THEN <<"Other: " \o other_supplies>> \o rest
                 ELSE <<option>> \o rest
            ELSE rest

RECURSIVE CollectSupplies(_, _, _)
CollectSupplies(options, checked, other_supplies) ==
    IF Len(options) = 0 THEN <<>>
    ELSE LET option == Head(options)
             rest == CollectSupplies(Tail(options), checked, other_supplies)
         IN IF option \in checked
            THEN IF option = "Other"
                 THEN IF other_supplies # ""
                      THEN <<"Other: " \o other_supplies>> \o rest
                      ELSE rest
                 ELSE <<option>> \o rest
            ELSE rest

SettingValue(setting, other_setting) ==
    IF setting = "Other" /\ other_setting # ""
    THEN "Other: " \o other_setting
    ELSE setting

Instructions == "### Instructions ###\n"

Prompt(supplies, setting, expertise, willingness, frequency, infected, moisture) ==
    "User-provided context:\n"
    \o "- Supplies available: " \o ReprList(supplies) \o "\n"
    \o "- Setting: " \o setting \o "\n"
    \o "- Expertise-level: " \o expertise \o "\n"
    \o "- Willing to visit hospital: " \o willingness \o "\n"
    \o "- Frequency of clinic visits: " \o frequency \o "\n"
    \o "- Wound infection status: " \o infected \o "\n"
    \o "- Wound moisture: " \o moisture \o "\n\n"
    \o Instructions

\* one call of client.chat.completions.create and what the endpoint did with it
RemoteCall(messages, max_tokens, outcome) ==
    [model |-> "gpt-4.1", messages |-> messages, max_tokens |-> max_tokens,
     outcome |-> outcome]

\* calls: the remote calls made; raised: an exception left the function;
\* value: the returned string
process_image_WholeResponse(image_file, supplies, setting, expertise, willingness, frequency, infected, moisture, outcome) ==
    [calls |-> <<RemoteCall(<<>>, MaxTokensAssessment, outcome)>>,
     raised |-> FALSE,
     value |-> IF outcome.ok THEN "ChatCompletion(" \o outcome.content \o ")"
               ELSE ErrorText(outcome.e)]

process_image(image_file, supplies, setting, expertise, willingness, frequency, infected, moisture, outcome) ==
    LET image_b64 == b64encode(image_file.bytes)
        prompt == Prompt(supplies, setting, expertise, willingness, frequency,
                         infected, moisture)
        messages ==
            <<[role |-> "user",
               content |-> <<[type |-> "text", text |-> prompt],
                             [type |-> "image_url",
                              url |-> "data:image/jpeg;base64," \o image_b64]>>]>>
    IN [calls |-> <<RemoteCall(messages, MaxTokensAssessment, outcome)>>,
        raised |-> FALSE,
        value |-> IF outcome.ok THEN outcome.content ELSE ErrorText(outcome.e)]

AssessmentData_Unset(assessment, uploaded_file, supplies, setting, expertise, willingness, frequency, infected, moisture) ==
    None

AssessmentData(assessment, uploaded_file, supplies, setting, expertise, willingness, frequency, infected, moisture) ==
    [assessment |-> assessment, image |-> uploaded_file, supplies |-> supplies,
     setting |-> setting, expertise |-> expertise, willingness |-> willingness,
     frequency |-> frequency, infected |-> infected, moisture |-> moisture]

\* ---------------------------------------------------------- results page
RECURSIVE ContextLines(_, _)
ContextLines(history, i) ==
    IF Len(history) = 0 THEN ""
    ELSE "Q" \o ToString(i) \o ": " \o Head(history).question \o "\n"
         \o "A" \o ToString(i) \o ": " \o Head(history).answer \o "\n\n"
         \o ContextLines(Tail(history), i + 1)

BuildContext_DropLast(assessment, history) ==
    "Original assessment:\n\n" \o assessment \o "\n\n"
    \o (IF Len(history) > 0
        THEN "Previous conversation:\n"
             \o ContextLines(SubSeq(history, 1, Len(history) - 1), 1)
        ELSE "")

BuildContext(assessment, history) ==
    "Original assessment:\n\n" \o assessment \o "\n\n"
    \o (IF Len(history) > 0
        THEN "Previous conversation:\n" \o ContextLines(history, 1)
        ELSE "")

AnswerInstruction == "Please answer the question clearly."

FollowMessages(context, followup_question) ==
    <<[role |-> "user",
       content |-> context \o "Current question: " \o followup_question \o "\n\n"
                   \o AnswerInstruction]>>

AppendExchange_Prepend(history, followup_question, response_text) ==
    <<[question |-> followup_question, answer |-> response_text]>> \o history

AppendExchange(history, followup_question, response_text) ==
    Append(history, [question |-> followup_question, answer |-> response_text])

IsBlankQuestion(followup_question) ==
    followup_question = "" \/ strip(followup_question) = ""

\* the try block of the Ask handler and its except clause
AskTry_ErrorAsAnswer(assessment, history, followup_question, outcome) ==
    LET context == BuildContext(assessment, history)
        follow_messages == FollowMessages(context, followup_question)
        call == RemoteCall(follow_messages, MaxTokensFollowUp, outcome)
        response_text == IF outcome.ok THEN outcome.content ELSE ErrorText(outcome.e)
    IN [calls |-> <<call>>, raised |-> FALSE, rerun |-> TRUE,
        history |-> AppendExchange(history, followup_question, response_text),
        shown |-> <<>>]

AskTry_ResetOnError(assessment, history, followup_question, outcome) ==
    LET context == BuildContext(assessment, history)
        follow_messages == FollowMessages(context, followup_question)
        call == RemoteCall(follow_messages, MaxTokensFollowUp, outcome)
    IN IF outcome.ok
       THEN [calls |-> <<call>>, raised |-> FALSE, rerun |-> TRUE,
             history |-> AppendExchange(history, followup_question, outcome.content),
             shown |-> <<>>]
       ELSE [calls |-> <<call>>, raised |-> FALSE, rerun |-> FALSE,
             history |-> <<>>,
             shown |-> <<[kind |-> "error", text |-> ErrorText(outcome.e)]>>]

AskTry_NoExcept(assessment, history, followup_question, outcome) ==
    LET context == BuildContext(assessment, history)
        follow_messages == FollowMessages(context, followup_question)
        call == RemoteCall(follow_messages, MaxTokensFollowUp, outcome)
    IN IF outcome.ok
       THEN [calls |-> <<call>>, raised |-> FALSE, rerun |-> TRUE,
             history |-> AppendExchange(history, followup_question, outcome.content),
             shown |-> <<>>]
       ELSE [calls |-> <<call>>, raised |-> TRUE, rerun |-> FALSE,
             history |-> history, shown |-> <<>>]

AskTry(assessment, history, followup_question, outcome) ==
    LET context == BuildContext(assessment, history)
        follow_messages == FollowMessages(context, followup_question)
        call == RemoteCall(follow_messages, MaxTokensFollowUp, outcome)
    IN IF outcome.ok
       THEN [calls |-> <<call>>, raised |-> FALSE, rerun |-> TRUE,
             history |-> AppendExchange(history, followup_question, outcome.content),
             shown |-> <<>>]
       ELSE [calls |-> <<call>>, raised |-> FALSE, rerun |-> FALSE,
             history |-> history,
             shown |-> <<[kind |-> "error", text |-> ErrorText(outcome.e)]>>]

\* what a render of the results page leaves on screen below the transcript
ResultsFooter(continue) ==
    IF continue THEN <<>>
    ELSE <<[kind |-> "success", text |-> "Thank you for using the wound assistant."]>>

FollowUpKeys == {"conversation_history", "continue_conversation"}

\* the terms gate and the page routing: the script stops before the routing
\* while the terms are not accepted
PageShown_NoGate(page) == current_page = page

PageShown(page) == terms_accepted /\ current_page = page

\* the follow-up section is rendered: assessment_data is there and the
\* lazily created keys exist from here on
FollowUpShown == PageShown("results") /\ assessment_data # None

\* ----------------------------------------------------------------- state
Init ==
    /\ terms_accepted = FALSE
    /\ current_page = "input"
    /\ assessment_data = None
    /\ session_keys = {}
    /\ conversation_history = <<>>
    /\ continue_conversation = FALSE
    /\ remote_log = <<>>
    /\ display = <<>>
    /\ unhandled = FALSE
    /\ widgets = None
    /\ last_event = "init"

\* --------------------------------------------------------------- actions
Accept ==
    /\ ~terms_accepted
    /\ terms_accepted' = TRUE
    /\ remote_log' = <<>>
    /\ display' = <<>>
    /\ unhandled' = FALSE
    /\ widgets' = None
    /\ last_event' = "accept"
    /\ UNCHANGED <<current_page, assessment_data, session_keys,
                   conversation_history, continue_conversation>>

Decline ==
    /\ ~terms_accepted
    /\ display' = <<[kind |-> "error",
                     text |-> "You must accept the terms to use this application."]>>
    /\ remote_log' = <<>>
    /\ unhandled' = FALSE
    /\ widgets' = None
    /\ last_event' = "decline"
    /\ UNCHANGED session

GenerateAssessment ==
    /\ PageShown("input")
    /\ last_event' = "generate"
    /\ \E uploaded_file \in Files \cup {None},
          checked \in SUBSET {SupplyOptions[i] : i \in DOMAIN SupplyOptions},
          other_supplies \in OtherSupplies, setting_choice \in SettingOptions,
          other_setting \in OtherSettings, expertise \in ExpertiseOptions,
          willingness \in WillingnessOptions, frequency \in FrequencyOptions,
          infected \in InfectedOptions, moisture \in MoistureOptions :
        LET supplies == CollectSupplies(SupplyOptions, checked, other_supplies)
            setting == SettingValue(setting_choice, other_setting)
        IN /\ widgets' = [uploaded_file |-> uploaded_file, checked |-> checked,
                          other_supplies |-> other_supplies]
           /\ IF uploaded_file = None
              THEN /\ display' = <<[kind |-> "error",
                                    text |-> "Please upload an image first."]>>
                   /\ remote_log' = <<>>
                   /\ unhandled' = FALSE
                   /\ UNCHANGED session
              ELSE IF supplies = <<>>
              THEN /\ display' = <<[kind |-> "error",
                                    text |-> "Please select at least one available supply."]>>
                   /\ remote_log' = <<>>
                   /\ unhandled' = FALSE
                   /\ UNCHANGED session
              ELSE \E outcome \in AssessmentOutcomes :
                   LET r == process_image(uploaded_file, supplies, setting, expertise,
                                          willingness, frequency, infected, moisture,
                                          outcome)
                   IN /\ remote_log' = r.calls
                      /\ unhandled' = r.raised
                      /\ IF r.raised
                         THEN /\ display' = <<>>
                              /\ UNCHANGED session
                         ELSE /\ assessment_data' =
                                    AssessmentData(r.value, uploaded_file, supplies,
                                                   setting, expertise, willingness,
                                                   frequency, infected, moisture)
                              /\ current_page' = "results"
                              /\ conversation_history' = <<>>
                              /\ continue_conversation' = TRUE
                              /\ session_keys' = session_keys \cup FollowUpKeys
                              /\ display' = ResultsFooter(TRUE)
                              /\ UNCHANGED terms_accepted

BackToInput_ClearsForm ==
    /\ PageShown("results")
    /\ current_page' = "input"
    /\ assessment_data' = None
    /\ remote_log' = <<>>
    /\ display' = <<>>
    /\ unhandled' = FALSE
    /\ widgets' = None
    /\ last_event' = "back"
    /\ UNCHANGED <<terms_accepted, session_keys, conversation_history,
                   continue_conversation>>

BackToInput ==
    /\ PageShown("results")
    /\ current_page' = "input"
    /\ remote_log' = <<>>
    /\ display' = <<>>
    /\ unhandled' = FALSE
    /\ widgets' = None
    /\ last_event' = "back"
    /\ UNCHANGED <<terms_accepted, assessment_data, session_keys,
                   conversation_history, continue_conversation>>

Finish ==
    /\ FollowUpShown
    /\ continue_conversation
    /\ continue_conversation' = FALSE
    /\ remote_log' = <<>>
    /\ display' = ResultsFooter(FALSE)
    /\ unhandled' = FALSE
    /\ widgets' = [followup_choice |-> "No"]
    /\ last_event' = "finish"
    /\ UNCHANGED <<terms_accepted, current_page, assessment_data, session_keys,
                   conversation_history>>

Ask ==
    /\ FollowUpShown
    /\ continue_conversation
    /\ Len(conversation_history) < MaxHistory
    /\ last_event' = "ask"
    /\ \E followup_question \in Questions :
        /\ widgets' = [followup_choice |-> "Yes", followup_question |-> followup_question]
        /\ IF IsBlankQuestion(followup_question)
           THEN /\ display' = <<[kind |-> "warning",
                                 text |-> "Please enter a question before asking."]>>
                /\ remote_log' = <<>>
                /\ unhandled' = FALSE
                /\ UNCHANGED session
           ELSE \E outcome \in FollowUpOutcomes :
                LET r == AskTry(assessment_data.assessment, conversation_history,
                                followup_question, outcome)
                IN /\ remote_log' = r.calls
                   /\ unhandled' = r.raised
                   /\ conversation_history' = r.history
                   /\ display' = IF r.rerun THEN ResultsFooter(continue_conversation)
                                 ELSE r.shown
                   /\ UNCHANGED <<terms_accepted, current_page, assessment_data,
                                  session_keys, continue_conversation>>

Next ==
    \/ Accept
    \/ Decline
    \/ GenerateAssessment
    \/ BackToInput
    \/ Finish
    \/ Ask

Spec == Init /\ [][Next]_vars

\* ------------------------------------------------- vocabulary of the claims
IsPrefix(s, t) == Len(s) <= Len(t) /\ SubSeq(t, 1, Len(s)) = s

\* positions at which sub occurs in s
Occurrences(s, sub) ==
    {i \in 1..(Len(s) - Len(sub) + 1) : SubSeq(s, i, i + Len(sub) - 1) = sub}

Contains(s, sub) == Occurrences(s, sub) # {}

Min(S) == CHOOSE x \in S : \A y \in S : x <= y

\* the parts occur in s one after the other, none overlapping the one before
RECURSIVE InOrder(_, _, _)
InOrder(s, parts, from) ==
    IF Len(parts) = 0 THEN TRUE
    ELSE LET hits == {i \in Occurrences(s, Head(parts)) : i >= from}
         IN hits # {} /\ InOrder(s, Tail(parts), Min(hits) + Len(Head(parts)))

\* every character of q is white space (so does the empty string)
OnlyWhitespace(q) == \A i \in 1..Len(q) : SubSeq(q, i, i) \in {" ", "\n", "\t"}

\* the form as the user left it: no image, or nothing that counts as a supply
\* (no plain option ticked, and Other either unticked or with an empty text)
FormIncomplete(w) ==
    \/ w.uploaded_file = None
    \/ /\ \A o \in w.checked : o = "Other"
       /\ ("Other" \notin w.checked \/ w.other_supplies = "")

RemoteFailed(log) == Len(log) > 0 /\ ~log[1].outcome.ok
RemoteSucceeded(log) == Len(log) > 0 /\ log[1].outcome.ok

\* ------------------------------------------------------------------- C1
\* C1: every validation failure is a no-op with a message.  A press of
\* Generate Assessment without an image or without supplies (Other ticked
\* with an empty text included), and a press of Ask with an empty or
\* whitespace-only question, show an error or warning, make no remote call
\* and leave current_page, assessment_data, conversation_history and
\* terms_accepted as they were.
C1_ValidationFailureIsNoOp ==
    [][((last_event' = "generate" /\ FormIncomplete(widgets'))
        \/ (last_event' = "ask" /\ OnlyWhitespace(widgets'.followup_question)))
       => /\ Len(display') > 0
          /\ \A i \in DOMAIN display' : display'[i].kind \in {"error", "warning"}
          /\ remote_log' = <<>>
          /\ UNCHANGED <<current_page, assessment_data, conversation_history,
                         terms_accepted>>]_vars

\* Other is ticked with an empty text and an image is there, after follow-ups
C1_Witness ==
    /\ last_event = "generate"
    /\ widgets.uploaded_file # None
    /\ widgets.checked = {"Other"}
    /\ widgets.other_supplies = ""
    /\ display # <<>>
    /\ Len(conversation_history) > 0

\* ------------------------------------------------------------------- C2
\* C2: after a submission that passes validation and whose remote call
\* succeeds, current_page is "results", the stored assessment is the text
\* the model returned for this submission, and conversation_history is
\* empty.
C2_SubmitSuccess ==
    (last_event = "generate" /\ ~FormIncomplete(widgets))
    => /\ Len(remote_log) = 1
       /\ remote_log[1].outcome.ok
          => /\ current_page = "results"
             /\ assessment_data # None
             /\ assessment_data.assessment = remote_log[1].outcome.content
             /\ assessment_data.image = widgets.uploaded_file
             /\ conversation_history = <<>>

C2_Witness ==
    /\ last_event = "generate"
    /\ ~FormIncomplete(widgets)
    /\ RemoteSucceeded(remote_log)
    /\ remote_log[1].outcome.content = "1. Cover"
    /\ current_page = "results"

\* ------------------------------------------------------------------- C3
\* C3 as stated: every press of Ask with a question that is not empty and
\* not only white space appends exactly one exchange, that question with
\* its answer, to the end of conversation_history and keeps the earlier
\* entries in place.
AskedQuestion == last_event' = "ask" /\ ~OnlyWhitespace(widgets'.followup_question)

C3_Original ==
    [][AskedQuestion
       => /\ Len(conversation_history') = Len(conversation_history) + 1
          /\ IsPrefix(conversation_history, conversation_history')
          /\ conversation_history'[Len(conversation_history')].question
                = widgets'.followup_question]_vars

\* C3 amended: when the remote call succeeds, the press appends exactly the
\* exchange of the question and the returned answer and keeps the earlier
\* entries in place; when the remote call fails, conversation_history is
\* left as it was.
C3_AppendOnSuccess ==
    [][AskedQuestion
       => /\ Len(remote_log') = 1
          /\ remote_log'[1].outcome.ok
             => conversation_history' =
                  conversation_history
                  \o <<[question |-> widgets'.followup_question,
                        answer |-> remote_log'[1].outcome.content]>>
          /\ ~remote_log'[1].outcome.ok
             => conversation_history' = conversation_history]_vars

\* a second exchange has been appended behind a different first one
C3_Witness ==
    /\ last_event = "ask"
    /\ RemoteSucceeded(remote_log)
    /\ Len(conversation_history) = 2
    /\ conversation_history[2].question = widgets.followup_question
    /\ conversation_history[1].question # conversation_history[2].question

\* ------------------------------------------------------------------- C4
\* C4: the content of every follow-up request holds the current assessment
\* text first, then every exchange of conversation_history, question then
\* answer, in arrival order, and only then the new question; each earlier
\* exchange is there once, and none beyond them.
PairParts(h, i) ==
    <<"Q" \o ToString(i) \o ": " \o h[i].question \o "\n",
      "A" \o ToString(i) \o ": " \o h[i].answer \o "\n">>

RECURSIVE HistoryParts(_, _)
HistoryParts(h, i) ==
    IF i > Len(h) THEN <<>> ELSE PairParts(h, i) \o HistoryParts(h, i + 1)

ContextInOrder(content, assessment, h, question) ==
    /\ InOrder(content,
               <<assessment>> \o HistoryParts(h, 1)
               \o <<"Current question: " \o question>>, 1)
    /\ \A i \in 1..Len(h) :
          /\ Cardinality(Occurrences(content, "Q" \o ToString(i) \o ": ")) = 1
          /\ Cardinality(Occurrences(content, "A" \o ToString(i) \o ": ")) = 1
    /\ ~Contains(content, "Q" \o ToString(Len(h) + 1) \o ": ")
    /\ Cardinality(Occurrences(content, "Current question: ")) = 1

C4_FollowUpContext ==
    [][(last_event' = "ask" /\ Len(remote_log') > 0)
       => \A k \in DOMAIN remote_log' :
            ContextInOrder(remote_log'[k].messages[1].content,
                           assessment_data.assessment, conversation_history,
                           widgets'.followup_question)]_vars

\* the third request, sent with two earlier exchanges
C4_Witness ==
    /\ last_event = "ask"
    /\ RemoteSucceeded(remote_log)
    /\ Len(conversation_history) = 3
    /\ conversation_history[1].question # conversation_history[2].question
    /\ Contains(remote_log[1].messages[1].content, "A2: ")

\* ------------------------------------------------------------------- C5
\* C5: a failure of the remote call is never raised out of the run and never
\* retried.  Every accepted submission or follow-up makes exactly one remote
\* call; when it fails, a string with the error indicator is stored as the
\* assessment or shown as an error, and follow-ups and the way back to a
\* new submission are still open.
Accepted ==
    \/ last_event = "generate" /\ ~FormIncomplete(widgets)
    \/ last_event = "ask" /\ ~OnlyWhitespace(widgets.followup_question)

ErrorStoredOrShown ==
    \/ /\ last_event = "generate"
       /\ assessment_data # None
       /\ Contains(assessment_data.assessment, ErrorPrefix \o remote_log[1].outcome.e)
    \/ /\ last_event = "ask"
       /\ \E i \in DOMAIN display :
            /\ display[i].kind = "error"
            /\ Contains(display[i].text, ErrorPrefix \o remote_log[1].outcome.e)

C5_FailureCaughtNotRetried ==
    /\ ~unhandled
    /\ Accepted
       => /\ Len(remote_log) = 1
          /\ RemoteFailed(remote_log)
             => /\ ErrorStoredOrShown
                /\ ENABLED Ask
                /\ ENABLED BackToInput

\* a follow-up fails in a session whose assessment request had failed too
C5_Witness ==
    /\ last_event = "ask"
    /\ RemoteFailed(remote_log)
    /\ Contains(assessment_data.assessment, ErrorPrefix)
    /\ Len(conversation_history) = 1

\* ------------------------------------------------------------------- C6
\* C6: while terms_accepted is false only Accept and Decline can be pressed:
\* Generate Assessment, Ask, Finish and Back to Input are not enabled, no
\* remote call is made, current_page, assessment_data and
\* conversation_history do not change, and Decline leaves terms_accepted
\* false.
C6_TermsGate ==
    [][~terms_accepted
       => /\ ~ENABLED GenerateAssessment
          /\ ~ENABLED Ask
          /\ ~ENABLED Finish
          /\ ~ENABLED BackToInput
          /\ last_event' \in {"accept", "decline"}
          /\ remote_log' = <<>>
          /\ UNCHANGED <<current_page, assessment_data, conversation_history>>
          /\ last_event' = "decline" => ~terms_accepted']_vars

C6_Witness ==
    /\ ~terms_accepted
    /\ last_event = "decline"
    /\ Len(display) = 1

\* ------------------------------------------------------------------- C7
\* C7 as stated: over any step of the session the earlier value of
\* conversation_history is a prefix of the later one.
C7_Original ==
    [][IsPrefix(conversation_history, conversation_history')]_vars

\* C7 amended: over Ask, Finish, Back to Input and a Generate Assessment
\* press that fails validation, the earlier value of conversation_history is
\* a prefix of the later one; a Generate Assessment press that passes
\* validation empties conversation_history.
C7_AppendOnlyUntilNewAssessment ==
    [][IF last_event' = "generate" /\ ~FormIncomplete(widgets')
       THEN conversation_history' = <<>>
       ELSE IsPrefix(conversation_history, conversation_history')]_vars

\* two exchanges are still there after a failed follow-up
C7_Witness ==
    /\ last_event = "ask"
    /\ RemoteFailed(remote_log)
    /\ Len(conversation_history) = 2

\* ------------------------------------------------------------------- C8
\* C8 as stated: when the remote call of a submission or of a follow-up
\* fails, terms_accepted, current_page and conversation_history keep the
\* values they had before the press.
C8_Original ==
    [][RemoteFailed(remote_log')
       => UNCHANGED <<terms_accepted, current_page, conversation_history>>]_vars

\* C8 amended: when the remote call of a follow-up fails, no session field
\* changes and the error string is shown; when the remote call of a
\* submission fails, the error string is stored as the assessment text and
\* the session changes as it does on success: current_page becomes
\* "results" and conversation_history is emptied, terms_accepted is kept.
C8_FailureEffects ==
    [][RemoteFailed(remote_log')
       => /\ last_event' = "ask"
             => /\ UNCHANGED session
                /\ display' = <<[kind |-> "error",
                                 text |-> ErrorPrefix \o remote_log'[1].outcome.e]>>
          /\ last_event' = "generate"
             => /\ assessment_data'.assessment = ErrorPrefix \o remote_log'[1].outcome.e
                /\ assessment_data'.image = widgets'.uploaded_file
                /\ current_page' = "results"
                /\ conversation_history' = <<>>
                /\ continue_conversation'
                /\ UNCHANGED terms_accepted]_vars

\* a failed submission: the results page shows the error string as the assessment
C8_Witness ==
    /\ last_event = "generate"
    /\ RemoteFailed(remote_log)
    /\ current_page = "results"
    /\ Contains(assessment_data.assessment, ErrorPrefix)

\* ------------------------------------------------------------------- C9
\* C9: Back to Input can be pressed only on the results page; it sets
\* current_page to "input" and changes nothing else: assessment_data with
\* the submitted values and the image, conversation_history,
\* continue_conversation and terms_accepted stay, and no remote call is
\* made.
C9_BackToInputFrame ==
    [][last_event' = "back"
       => /\ current_page = "results"
          /\ current_page' = "input"
          /\ remote_log' = <<>>
          /\ UNCHANGED <<assessment_data, conversation_history,
                         continue_conversation, terms_accepted, session_keys>>]_vars

C9_Witness ==
    /\ last_event = "back"
    /\ current_page = "input"
    /\ assessment_data # None
    /\ Len(conversation_history) = 2
    /\ ~continue_conversation

\* ------------------------------------------------------------------ C10
\* C10: whenever current_page is "results", assessment_data is present, and
\* a present assessment_data never becomes absent again.
C10_ResultsHasAssessment ==
    /\ [](current_page = "results" => assessment_data # None)
    /\ [][assessment_data # None => assessment_data' # None]_vars

C10_Witness ==
    /\ current_page = "results"
    /\ assessment_data # None
    /\ last_event = "finish"

====
